---------------------------- MODULE Spec2Model ----------------------------
(***************************************************************************)
(* Migration Visualizer front end (frontend/src/App.jsx and its helpers):  *)
(* the session state of the App component, the handleRun stream loop with  *)
(* its de-framer and event dispatch, the ProgressVisualizer log fold, the  *)
(* iteration store with handleIterationSelect, and parseCSV.               *)
(*                                                                         *)
(* Conventions.  A JavaScript string is a sequence of one-character        *)
(* strings (CSV text), of words (progress lines) or of stream units (the   *)
(* event stream).  A nullable JavaScript value is <<>> (null, undefined)   *)
(* or <<v>>.  A number that may be NaN is <<n>> or NaN.                     *)
(***************************************************************************)
EXTENDS Integers, Sequences, FiniteSets, TLC

\* ------------------------------------------------------------------ bounds

\* chunks one response delivers before it closes (whole App)
MaxReads == 2
\* chunks one response delivers before it closes (run loop alone)
MaxRunReads == 3
\* handleDocsUpload invocations in flight at once
MaxUploads == 1

\* ------------------------------------------------------------ JS values

Null == <<>>
Some(v) == <<v>>
NaN == <<>>
Num(n) == <<n>>


\* String.prototype.startsWith on sequences
StartsWith(s, p) == Len(s) >= Len(p) /\ SubSeq(s, 1, Len(p)) = p

\* String.prototype.includes on sequences: p is a contiguous part of s
Includes(s, p) ==
    \E i \in 1..(Len(s) - Len(p) + 1) : SubSeq(s, i, i + Len(p) - 1) = p

\* ---------------------------------------------------------------- parseCSV

Quote == "\""
Comma == ","
Newline == "\n"
Whitespace == {" ", "\t", "\r", "\n"}

\* csvText.split('\n')
RECURSIVE SplitLines(_, _, _)
SplitLines(s, cur, acc) ==
    IF s = <<>> THEN Append(acc, cur)
    ELSE IF Head(s) = Newline THEN SplitLines(Tail(s), <<>>, Append(acc, cur))
    ELSE SplitLines(Tail(s), Append(cur, Head(s)), acc)

\* l.trim() is non-empty
IsBlank(l) == \A i \in 1..Len(l) : l[i] \in Whitespace

\* .replace(/""/g, '"'): leftmost non-overlapping doubled quotes become one
RECURSIVE Undouble(_)
Undouble(f) ==
    IF Len(f) < 2 THEN f
    ELSE IF f[1] = Quote /\ f[2] = Quote THEN <<Quote>> \o Undouble(SubSeq(f, 3, Len(f)))
    ELSE <<f[1]>> \o Undouble(Tail(f))

\* the unquoting both branches of parseLine apply to a field; for the
\* one-character field '"' substring(1, 0) swaps its arguments and returns
\* the quote itself
Unquote(field) ==
    IF StartsWith(field, <<Quote>>) /\ field[Len(field)] = Quote
    THEN IF Len(field) = 1 THEN field
         ELSE Undouble(SubSeq(field, 2, Len(field) - 1))
    ELSE field

\* the for loop of parseLine from index i (1-based), then the last field
RECURSIVE ParseLineFrom(_, _, _, _, _)
ParseLineFrom(line, i, start, inQuotes, result) ==
    IF i > Len(line) THEN Append(result, Unquote(SubSeq(line, start, Len(line))))
    ELSE IF line[i] = Quote
         THEN ParseLineFrom(line, i + 1, start, ~inQuotes, result)
    ELSE IF line[i] = Comma /\ ~inQuotes
         THEN ParseLineFrom(line, i + 1, i + 1, inQuotes,
                            Append(result, Unquote(SubSeq(line, start, i - 1))))
    ELSE ParseLineFrom(line, i + 1, start, inQuotes, result)

parseLine(line) == ParseLineFrom(line, 1, 1, FALSE, <<>>)

\* headers.forEach((h, i) => row[h] = values[i] || ""): a later duplicate
\* header overwrites an earlier one
ZipRow(headers, values) ==
    [h \in {headers[i] : i \in 1..Len(headers)} |->
        LET last == CHOOSE i \in 1..Len(headers) :
                        /\ headers[i] = h
                        /\ \A j \in (i + 1)..Len(headers) : headers[j] # h
        IN IF last <= Len(values) THEN values[last] ELSE <<>>]

EmptyDataset == [columns |-> <<>>, data |-> <<>>]

\* the fault of a decode that keeps the blank lines
parseCSVKeepBlank(csvText) ==
    IF csvText = <<>> THEN EmptyDataset
    ELSE LET lines == SplitLines(csvText, <<>>, <<>>)
             headers == parseLine(lines[1])
         IN [columns |-> headers,
             data |-> [k \in 1..(Len(lines) - 1) |->
                          ZipRow(headers, parseLine(lines[k + 1]))]]

parseCSV(csvText) ==
    IF csvText = <<>> THEN EmptyDataset
    ELSE LET NonBlank(l) == ~IsBlank(l)
             lines == SelectSeq(SplitLines(csvText, <<>>, <<>>), NonBlank)
         IN IF Len(lines) = 0 THEN EmptyDataset
            ELSE LET headers == parseLine(lines[1])
                 IN [columns |-> headers,
                     data |-> [k \in 1..(Len(lines) - 1) |->
                                  ZipRow(headers, parseLine(lines[k + 1]))]]

\* ------------------------------------------------------- sample CSV texts

CsvA == <<"h", "\n", "a">>
CsvB == <<"h", "\n", "b">>
CsvSrc == <<"s", "\n", "x">>
CsvFinal == <<"h", "\n", "f">>

\* event.data of a result event: { source: {columns, data}, target: {...} }
ResultR == [source |-> parseCSV(CsvSrc), target |-> parseCSV(CsvFinal)]

\* ------------------------------------------------------------ event stream

\* The response text is a sequence of units: the newline character, the
\* two halves of the 'data: ' prefix, the braces of a JSON object and one
\* unit for what stands between them.
NL == "\n"
DataPrefix == <<"data:", " ">>

\* what JSON.parse yields for the object whose inside is the given unit
JsonBody ==
    [c \in {"P", "Q", "L", "U", "V", "W", "A", "I1a", "I1b", "I2", "R", "E", "X", "N",
            "T1", "T2", "T3", "T4"} |->
        CASE c = "P" -> [type |-> "progress", message |-> <<"Converting", "documents">>]
          [] c = "Q" -> [type |-> "progress", message |-> <<"Converted", "3", "files">>]
          [] c = "L" -> [type |-> "progress", message |-> <<"Calling", "LLM">>]
          [] c = "T1" -> [type |-> "progress",
                          message |-> <<"Starting", "Iteration", "1", "/", "3">>]
          [] c = "T2" -> [type |-> "progress", message |-> <<"Iteration", "2", "/", "4">>]
          [] c = "T3" -> [type |-> "progress", message |-> <<"Iteration", "done">>]
          [] c = "T4" -> [type |-> "progress", message |-> <<"Iteration", "1", "/", "0">>]
          [] c = "U" -> [type |-> "usage", tokens |-> Num(2)]
          [] c = "V" -> [type |-> "usage", tokens |-> Num(3)]
          \* {"type":"usage"}: event.tokens is undefined, prev + undefined is NaN
          [] c = "W" -> [type |-> "usage", tokens |-> NaN]
          [] c = "A" -> [type |-> "agent_state", data |-> "state1"]
          [] c = "I1a" -> [type |-> "iteration_complete", iteration |-> 1, csv_content |-> CsvA]
          [] c = "I1b" -> [type |-> "iteration_complete", iteration |-> 1, csv_content |-> CsvB]
          [] c = "I2" -> [type |-> "iteration_complete", iteration |-> 2, csv_content |-> CsvA]
          [] c = "R" -> [type |-> "result", data |-> ResultR]
          [] c = "E" -> [type |-> "error", message |-> "agent failed"]
          [] c = "X" -> [type |-> "heartbeat"]
          \* {}: event.type is undefined
          [] c = "N" -> [type |-> "undefined"]]

\* buffer.split('\n\n'): the pieces between leftmost non-overlapping
\* delimiters; the last piece is what follows the last delimiter
RECURSIVE SplitFrom(_, _, _, _)
SplitFrom(s, i, start, acc) ==
    IF i + 1 > Len(s) THEN Append(acc, SubSeq(s, start, Len(s)))
    ELSE IF s[i] = NL /\ s[i + 1] = NL
         THEN SplitFrom(s, i + 2, i + 2, Append(acc, SubSeq(s, start, i - 1)))
    ELSE SplitFrom(s, i + 1, start, acc)

Split(buffer) == SplitFrom(buffer, 1, 1, <<>>)

\* JSON.parse skips white space around the value
RECURSIVE JsonTrim(_)
JsonTrim(s) ==
    IF s = <<>> THEN s
    ELSE IF Head(s) \in {" ", NL} THEN JsonTrim(Tail(s))
    ELSE IF s[Len(s)] \in {" ", NL} THEN JsonTrim(SubSeq(s, 1, Len(s) - 1))
    ELSE s

\* JSON.parse(jsonStr): the event, or Null when it throws
JsonParse(jsonStr) ==
    LET t == JsonTrim(jsonStr)
    IN IF Len(t) = 3 /\ t[1] = "{" /\ t[3] = "}" /\ t[2] \in DOMAIN JsonBody
       THEN Some(JsonBody[t[2]])
       ELSE Null

\* ------------------------------------------------- ProgressVisualizer fold

Stages == {"converting", "analyzing", "processing"}

\* useState initial value of the stage statuses
InitialStages == [s \in Stages |-> "waiting"]

\* useState initial value of agentState
InitialAgentState ==
    [iteration |-> 0, maxIterations |-> 5, action |-> "Initializing...",
     thoughts |-> <<>>, files |-> 0]

\* decimal numerals that occur as words of the sample progress lines
Numerals == <<"0", "1", "2", "3", "4", "5">>
IsNumeral(w) == \E i \in 1..Len(Numerals) : Numerals[i] = w
parseInt(w) == (CHOOSE i \in 1..Len(Numerals) : Numerals[i] = w) - 1

\* log.match(/Iteration (\d+)\/(\d+)/): the leftmost match, or Null
MatchIteration(log) ==
    LET Hit(i) == /\ log[i] = "Iteration" /\ IsNumeral(log[i + 1])
                  /\ log[i + 2] = "/" /\ IsNumeral(log[i + 3])
        hits == {i \in 1..(Len(log) - 3) : Hit(i)}
    IN IF hits = {} THEN Null
       ELSE LET i == CHOOSE j \in hits : \A k \in hits : j <= k
            IN Some(<<log[i + 1], log[i + 3]>>)

\* log.match(/Selected (\d+) files/)
MatchSelected(log) ==
    LET Hit(i) == log[i] = "Selected" /\ IsNumeral(log[i + 1]) /\ log[i + 2] = "files"
        hits == {i \in 1..(Len(log) - 2) : Hit(i)}
    IN IF hits = {} THEN Null
       ELSE LET i == CHOOSE j \in hits : \A k \in hits : j <= k
            IN Some(log[i + 1])

\* log.replace('Agent thoughts:', '').trim(): the first occurrence removed
RemoveThoughtsMarker(log) ==
    LET m == <<"Agent", "thoughts:">>
        i == CHOOSE j \in 1..(Len(log) - 1) :
                /\ SubSeq(log, j, j + 1) = m
                /\ \A k \in 1..(j - 1) : SubSeq(log, k, k + 1) # m
    IN SubSeq(log, 1, i - 1) \o SubSeq(log, i + 2, Len(log))

\* the stage statuses after one more log line (body of logs.forEach)
StageStep(st, log) ==
    LET c1 == IF Includes(log, <<"Converting", "documents">>)
              THEN [st EXCEPT !.converting = "active"] ELSE st
        c2 == IF Includes(log, <<"Converted">>)
              THEN [c1 EXCEPT !.converting = "completed"] ELSE c1
        a1 == IF Includes(log, <<"Analyzing", "content">>)
              THEN [c2 EXCEPT !.analyzing = "active"] ELSE c2
        a2 == IF Includes(log, <<"Content", "fits">>) \/ Includes(log, <<"Content", "too", "large">>)
              THEN [a1 EXCEPT !.analyzing = "completed"] ELSE a1
        p1 == IF Includes(log, <<"Calling", "LLM">>) \/ Includes(log, <<"Starting", "iterative", "agent">>)
              THEN [a2 EXCEPT !.processing = "active"] ELSE a2
        p2 == IF Includes(log, <<"process", "completed">>) \/ Includes(log, <<"Response", "saved">>)
              THEN [p1 EXCEPT !.processing = "completed"] ELSE p1
    IN p2

\* newAgentState after one more log line (body of logs.forEach)
AgentStep(ag, log) ==
    LET m == IF Includes(log, <<"Iteration">>) THEN MatchIteration(log) ELSE Null
        i1 == IF m # Null
              THEN [ag EXCEPT !.iteration = parseInt(m[1][1]),
                              !.maxIterations = parseInt(m[1][2])]
              ELSE ag
        s1 == IF Includes(log, <<"Agent", "selecting">>)
              THEN [i1 EXCEPT !.action = "Scanning documentation for matches..."] ELSE i1
        s2 == IF Includes(log, <<"Updating", "mapping">>)
              THEN [s1 EXCEPT !.action = "Refining mapping with new context..."] ELSE s1
        t1 == IF Includes(log, <<"Agent", "thoughts:">>)
              THEN [s2 EXCEPT !.thoughts = RemoveThoughtsMarker(log)] ELSE s2
        f == IF Includes(log, <<"Selected">>) /\ Includes(log, <<"files">>)
             THEN MatchSelected(log) ELSE Null
        f1 == IF f # Null THEN [t1 EXCEPT !.files = parseInt(f[1])] ELSE t1
    IN f1

\* the effect on [logs]: newState starts from all-waiting, newAgentState
\* from the component's current agentState
RECURSIVE FoldStages(_, _)
FoldStages(st, logs) ==
    IF logs = <<>> THEN st ELSE FoldStages(StageStep(st, Head(logs)), Tail(logs))

RECURSIVE FoldAgent(_, _)
FoldAgent(ag, logs) ==
    IF logs = <<>> THEN ag ELSE FoldAgent(AgentStep(ag, Head(logs)), Tail(logs))

Rank(status) == CASE status = "waiting" -> 0 [] status = "active" -> 1 [] status = "completed" -> 2

\* ------------------------------------------------------- event dispatch

\* the fault of a plain setter: setTotalTokens(event.tokens)
JsAddOverwrite(a, b) == b

\* prev + event.tokens
JsAdd(a, b) == IF a = NaN \/ b = NaN THEN NaN ELSE Num(a[1] + b[1])

\* the fault of a missing sort: the snapshots stay in arrival order
SortByIterationArrival(results) == results

\* newResults.sort((a, b) => a.iteration - b.iteration): a stable sort
RECURSIVE InsertByIteration(_, _)
InsertByIteration(sorted, r) ==
    IF sorted = <<>> THEN <<r>>
    ELSE IF Head(sorted).iteration <= r.iteration
         THEN <<Head(sorted)>> \o InsertByIteration(Tail(sorted), r)
    ELSE <<r>> \o sorted

RECURSIVE SortByIteration(_)
SortByIteration(results) ==
    IF results = <<>> THEN <<>>
    ELSE InsertByIteration(SortByIteration(SubSeq(results, 1, Len(results) - 1)),
                           results[Len(results)])

\* the state the stream loop writes, as one record
InitialSession ==
    [progress |-> <<>>, totalTokens |-> Num(0), agentDetailedState |-> Null,
     iterationResults |-> <<>>, data |-> Null, finalData |-> Null, error |-> Null]

\* the fault of a dispatch that rejects what it does not recognise
ApplyEventStrict(S, event) ==
    IF event.type \in {"progress", "usage", "agent_state", "iteration_complete",
                       "result", "error"}
    THEN CASE event.type = "progress" ->
                 [S EXCEPT !.progress = Append(@, event.message)]
           [] event.type = "usage" ->
                 [S EXCEPT !.totalTokens = JsAdd(@, event.tokens)]
           [] event.type = "agent_state" ->
                 [S EXCEPT !.agentDetailedState = Some(event.data)]
           [] event.type = "iteration_complete" ->
                 [S EXCEPT !.iterationResults =
                     SortByIteration(Append(@, [iteration |-> event.iteration,
                                                content |-> event.csv_content]))]
           [] event.type = "result" ->
                 [S EXCEPT !.data = Some(event.data), !.finalData = Some(event.data)]
           [] event.type = "error" ->
                 [S EXCEPT !.error = Some(event.message)]
    ELSE [S EXCEPT !.error = Some("unknown event")]

\* the if / else-if chain on event.type
ApplyEvent(S, event) ==
    CASE event.type = "progress" ->
            [S EXCEPT !.progress = Append(@, event.message)]
      [] event.type = "usage" ->
            [S EXCEPT !.totalTokens = JsAdd(@, event.tokens)]
      [] event.type = "agent_state" ->
            [S EXCEPT !.agentDetailedState = Some(event.data)]
      [] event.type = "iteration_complete" ->
            [S EXCEPT !.iterationResults =
                SortByIteration(Append(@, [iteration |-> event.iteration,
                                           content |-> event.csv_content]))]
      [] event.type = "result" ->
            [S EXCEPT !.data = Some(event.data), !.finalData = Some(event.data)]
      [] event.type = "error" ->
            [S EXCEPT !.error = Some(event.message)]
      [] OTHER -> S

\* one pass of the for loop over a terminated record
ApplyLine(S, line) ==
    IF StartsWith(line, DataPrefix)
    THEN LET event == JsonParse(SubSeq(line, Len(DataPrefix) + 1, Len(line)))
         IN IF event = Null THEN S ELSE ApplyEvent(S, event[1])
    ELSE S

RECURSIVE ApplyLines(_, _)
ApplyLines(S, lines) ==
    IF lines = <<>> THEN S ELSE ApplyLines(ApplyLine(S, Head(lines)), Tail(lines))

\* the fault of a de-framer without carry: the unterminated tail of the
\* previous read is dropped instead of being joined to the next chunk
ProcessChunkNoCarry(S, buffer, chunk) ==
    LET lines == Split(chunk)
    IN [session |-> ApplyLines(S, SubSeq(lines, 1, Len(lines) - 1)),
        buffer |-> lines[Len(lines)]]

\* one pass of the while loop after a read that was not done: the session
\* and the buffer kept for the next pass
ProcessChunk(S, buffer, chunk) ==
    LET lines == Split(buffer \o chunk)
    IN [session |-> ApplyLines(S, SubSeq(lines, 1, Len(lines) - 1)),
        buffer |-> lines[Len(lines)]]

\* ------------------------------------------------------ document lookups

\* the length above which a filename without extension is refused
MaxPlainName == 20

Alnum ==
    {"a", "b", "d", "e", "h", "i", "l", "m", "o", "r", "s", "t", "x",
     "A", "B", "D", "E", "I", "M", "O", "S", "T", "0", "1", "2"}

\* filename.match(/\.[a-zA-Z0-9]{2,4}$/)
HasExtension(filename) ==
    \E n \in 2..4 :
        /\ Len(filename) >= n + 1
        /\ filename[Len(filename) - n] = "."
        /\ \A i \in (Len(filename) - n + 1)..Len(filename) : filename[i] \in Alnum

\* the fault of a length test off by one: filename.length >= 20
IsMalformedFrom(filename) == ~HasExtension(filename) /\ Len(filename) >= MaxPlainName

\* the guard of handleViewDocument: TRUE when the alert is raised
IsMalformed(filename) == ~HasExtension(filename) /\ Len(filename) > MaxPlainName

ItemMd == <<"I", "T", "E", "M", ".", "m", "d">>
LongName == [i \in 1..(MaxPlainName + 1) |-> "x"]
SampleFilenames == {ItemMd, LongName}

\* value.indexOf(':'), 1-based: 0 when the value has no colon
IndexOfColon(value) ==
    LET hits == {i \in 1..Len(value) : value[i] = ":"}
    IN IF hits = {} THEN 0 ELSE CHOOSE i \in hits : \A j \in hits : i <= j

\* String.prototype.trim
RECURSIVE Trim(_)
Trim(s) ==
    IF s = <<>> THEN s
    ELSE IF Head(s) \in Whitespace THEN Trim(Tail(s))
    ELSE IF s[Len(s)] \in Whitespace THEN Trim(SubSeq(s, 1, Len(s) - 1))
    ELSE s

\* the fault of a split at the last colon: value.lastIndexOf(':')
ResolveAtLastColon(value) ==
    LET hits == {i \in 1..Len(value) : value[i] = ":"}
        lastColonIndex == IF hits = {} THEN 0
                          ELSE CHOOSE i \in hits : \A j \in hits : i >= j
    IN IF lastColonIndex # 0
       THEN [filename |-> Trim(SubSeq(value, 1, lastColonIndex - 1)),
             context |-> Trim(SubSeq(value, lastColonIndex + 1, Len(value)))]
       ELSE [filename |-> value, context |-> <<>>]

\* the split of the Target Source cellClick of the result grid
ResolveTargetSource(value) ==
    LET firstColonIndex == IndexOfColon(value)
    IN IF firstColonIndex # 0
       THEN [filename |-> Trim(SubSeq(value, 1, firstColonIndex - 1)),
             context |-> Trim(SubSeq(value, firstColonIndex + 1, Len(value)))]
       ELSE [filename |-> value, context |-> <<>>]

\* the split of the Potential Matches cellClick of the result grid
ResolvePotentialMatch(value) ==
    LET firstColonIndex == IndexOfColon(value)
    IN IF firstColonIndex # 0
       THEN [filename |-> Trim(SubSeq(value, 1, firstColonIndex - 1)),
             context |-> Trim(SubSeq(value, firstColonIndex + 1, Len(value)))]
       ELSE [filename |-> value, context |-> <<>>]

\* the split of both cellClick handlers of the CsvViewer
ResolveCsvViewer(value) ==
    LET firstColonIndex == IndexOfColon(value)
    IN IF firstColonIndex # 0
       THEN [filename |-> Trim(SubSeq(value, 1, firstColonIndex - 1)),
             context |-> Trim(SubSeq(value, firstColonIndex + 1, Len(value)))]
       ELSE [filename |-> value, context |-> <<>>]

\* the shape check of the Target Source cellClick of the result grid
IsMalformedGrid(filename) == ~HasExtension(filename) /\ Len(filename) > MaxPlainName

\* the i flag, on the letters of the samples
LowerCase(c) ==
    CASE c = "A" -> "a" [] c = "B" -> "b" [] c = "D" -> "d" [] c = "E" -> "e"
      [] c = "I" -> "i" [] c = "M" -> "m" [] c = "O" -> "o" [] c = "S" -> "s"
      [] c = "T" -> "t" [] OTHER -> c

\* value.match(/\.txt|\.md|\.html/i) of the source-column cellClick
NamesDocument(value) ==
    LET lower == [i \in 1..Len(value) |-> LowerCase(value[i])]
    IN \/ Includes(lower, <<".", "t", "x", "t">>)
       \/ Includes(lower, <<".", "m", "d">>)
       \/ Includes(lower, <<".", "h", "t", "m", "l">>)

\* raw cell values
RefItem == <<" ", "I", ".", "m", "d", " ", ":", " ", "a", ":", "b", " ">>
RefPlain == <<" ", "I", ".", "M", "D">>
RefNoName == <<":", "a">>
RefLong == LongName
RefLongDoc == <<"a", ".", "m", "d">> \o [i \in 1..(MaxPlainName - 3) |-> "x"]
RefLongContext == LongName \o <<":", "a">>
\* identifiers at the edges of the shape check: 20 and 21 characters
\* without extension, and longer ones ending in a dot and 1, 2, 4 and 5
\* alphanumerics
Xs(n) == [i \in 1..n |-> "x"]
ShapeSamples ==
    {Xs(MaxPlainName), Xs(MaxPlainName + 1),
     Xs(MaxPlainName) \o <<".", "a">>,
     Xs(MaxPlainName) \o <<".", "m", "d">>,
     Xs(MaxPlainName) \o <<".", "a", "b", "d", "m">>,
     Xs(MaxPlainName) \o <<".", "a", "b", "d", "m", "t">>,
     Xs(MaxPlainName) \o <<".", "m", "d", ":", "a">>}

SampleReferences == {RefItem, RefPlain, RefNoName, RefLong, RefLongDoc, RefLongContext}

\* ------------------------------------------------------ DocumentSidebar

\* toLowerCase, and the i flag of a pattern
ToLower(s) == [i \in 1..Len(s) |-> LowerCase(s[i])]

\* isHtmlDoc
IsHtmlDoc(content) ==
    /\ content # <<>>
    /\ \/ StartsWith(Trim(ToLower(content)), <<"<", "!", "d", "o", "c", "t", "y", "p", "e">>)
       \/ StartsWith(Trim(ToLower(content)), <<"<", "h", "t", "m", "l">>)

\* [a-zA-Z0-9_]
IsWordChar(c) == c \in Alnum \/ c = "_"

\* A pattern is a sequence of items: <<"lit", c>> matches the character c
\* in either case, <<"run", "space">> is [\s]+ and <<"run", "junk">> is
\* [\W_]+.
InClass(class, c) ==
    IF class = "space" THEN c \in Whitespace ELSE c \notin Alnum

\* the pattern mark() makes of a keyword with separateWordSearch false:
\* the characters as they are, every run of white space merged into [\s]+
RECURSIVE ExactPattern(_)
ExactPattern(keyword) ==
    IF keyword = <<>> THEN <<>>
    ELSE IF Head(keyword) \in Whitespace
         THEN IF Len(keyword) > 1 /\ keyword[2] \in Whitespace
              THEN ExactPattern(Tail(keyword))
              ELSE <<<<"run", "space">>>> \o ExactPattern(Tail(keyword))
    ELSE <<<<"lit", LowerCase(Head(keyword))>>>> \o ExactPattern(Tail(keyword))

\* term.split(/[^a-zA-Z0-9_]+/).filter(w => w.length > 0)
RECURSIVE SplitWords(_, _, _)
SplitWords(term, cur, acc) ==
    IF term = <<>> THEN (IF cur = <<>> THEN acc ELSE Append(acc, cur))
    ELSE IF IsWordChar(Head(term)) THEN SplitWords(Tail(term), Append(cur, Head(term)), acc)
    ELSE SplitWords(Tail(term), <<>>, IF cur = <<>> THEN acc ELSE Append(acc, cur))

\* escapedWords.join('[\\W_]+')
RECURSIVE JoinWords(_)
JoinWords(words) ==
    IF words = <<>> THEN <<>>
    ELSE [i \in 1..Len(Head(words)) |-> <<"lit", LowerCase(Head(words)[i])>>]
            \o (IF Len(words) > 1 THEN <<<<"run", "junk">>>> ELSE <<>>)
            \o JoinWords(Tail(words))

\* the least number of characters a term needs for getFlexibleRegex
MinTerm == 2

\* getFlexibleRegex(term): the pattern, or Null
getFlexibleRegex(term) ==
    IF term = <<>> \/ Len(term) < MinTerm THEN Null
    ELSE LET words == SplitWords(term, <<>>, <<>>)
         IN IF Len(words) = 0 THEN Null ELSE Some(JoinWords(words))

\* the length of the run of characters of the class that starts at text[i]
RECURSIVE RunLength(_, _, _)
RunLength(class, text, i) ==
    IF i <= Len(text) /\ InClass(class, text[i]) THEN 1 + RunLength(class, text, i + 1)
    ELSE 0

\* a match of pattern[k..] at text[i..], as the backtracking matcher finds
\* it (a run takes as much as it can, then gives back): the index after
\* the match, or 0 when there is none
RECURSIVE MatchFrom(_, _, _, _)
RECURSIVE TryRun(_, _, _, _, _)
MatchFrom(pattern, k, text, i) ==
    IF k > Len(pattern) THEN i
    ELSE IF pattern[k][1] = "lit"
         THEN IF i <= Len(text) /\ LowerCase(text[i]) = pattern[k][2]
              THEN MatchFrom(pattern, k + 1, text, i + 1)
              ELSE 0
    ELSE TryRun(pattern, k, text, i, RunLength(pattern[k][2], text, i))

TryRun(pattern, k, text, i, n) ==
    IF n = 0 THEN 0
    ELSE LET end == MatchFrom(pattern, k + 1, text, i + n)
         IN IF end # 0 THEN end ELSE TryRun(pattern, k, text, i, n - 1)

\* the matches of a global pattern, left to right and not overlapping
RECURSIVE FindAll(_, _, _)
FindAll(pattern, text, from) ==
    IF from > Len(text) \/ pattern = <<>> THEN <<>>
    ELSE LET end == MatchFrom(pattern, 1, text, from)
         IN IF end = 0 THEN FindAll(pattern, text, from + 1)
            ELSE <<[from |-> from, to |-> end - 1]>> \o FindAll(pattern, text, end)

\* one strategy of the effect and what its done callback was given
Tried(strategy, outcome) == [strategy |-> strategy, outcome |-> outcome]

\* an effect whose strategy 2 does not wait for the count of strategy 1
LocateEveryStrategy(highlight, body) ==
    LET exact == IF Trim(highlight) = <<>> THEN <<>>
                 ELSE FindAll(ExactPattern(highlight), body, 1)
        regex == getFlexibleRegex(highlight)
        flexible == IF regex = Null THEN <<>> ELSE FindAll(regex[1], body, 1)
    IN [pc |-> "done",
        log |-> <<Tried(1, IF Len(exact) > 0 THEN "marked" ELSE "nothing"),
                  Tried(2, IF Len(flexible) > 0 THEN "marked" ELSE "nothing")>>,
        spans |-> exact \o flexible]

\* the effect on [viewMode, highlight, content, isOpen], its guard true:
\* unmark, mark(highlight) and the nested done callbacks; getPreviewRegex
\* is not defined, the call raises a ReferenceError
Locate(highlight, body) ==
    LET exact == IF Trim(highlight) = <<>> THEN <<>>
                 ELSE FindAll(ExactPattern(highlight), body, 1)
    IN IF Len(exact) > 0
       THEN [pc |-> "done", log |-> <<Tried(1, "marked")>>, spans |-> exact]
       ELSE LET regex == getFlexibleRegex(highlight)
            IN IF regex = Null
               THEN [pc |-> "done",
                     log |-> <<Tried(1, "nothing"), Tried(2, "no pattern")>>,
                     spans |-> <<>>]
               ELSE LET flexible == FindAll(regex[1], body, 1)
                    IN IF Len(flexible) > 0
                       THEN [pc |-> "done",
                             log |-> <<Tried(1, "nothing"), Tried(2, "marked")>>,
                             spans |-> flexible]
                       ELSE [pc |-> "raised",
                             log |-> <<Tried(1, "nothing"), Tried(2, "nothing"),
                                       Tried(3, "ReferenceError")>>,
                             spans |-> <<>>]

\* search phrases and document texts
PhraseOrder == <<"O", "r", "d", "e", "r", " ", "M", "a", "s", "t", "e", "r">>
PhraseX == <<"x">>
PhraseAb == <<"a", "b">>
PhraseBars == <<"|", "|">>
PhraseSpaced == <<"a", " ", " ", "b">>
PhraseAbsent == <<"o", "x">>
PhraseUnder == <<"a", "_", "b">>
BodyTable == <<"S", "e", "e", " ", "O", "r", "d", "e", "r", "|", "M", "a", "s", "t", "e", "r", " ", "t", "a", "b", "l", "e">>
BodyAb == <<"x", " ", "A", "B", " ", "a", "\t", "b">>
BodyHtml == <<"<", "h", "t", "m", "l", ">", "a", "b">>
BodyPlain == <<"O", "r", "d", "e", "r", " ", "M", "a", "s", "t", "e", "r">>
BodyLoose == <<"a", "_", "|", "_", "b", " ", "d", "x">>
Phrases == {PhraseOrder, PhraseX, PhraseAb, PhraseBars, PhraseSpaced, PhraseAbsent, PhraseUnder}
Bodies == {BodyTable, BodyAb, BodyHtml, BodyPlain, BodyLoose}

\* ------------------------------------------------------------------ state

VARIABLES
    loading,             \* useState(false)
    error,               \* useState(null)
    data,                \* useState(null): the displayed dataset pair
    finalData,           \* useState(null): the terminal result
    iterationResults,    \* useState([])
    selectedIteration,   \* useState(null)
    progress,            \* useState([])
    totalTokens,         \* useState(0)
    agentDetailedState,  \* useState(null)
    csvPath,             \* useState('')
    docsPath,            \* useState('')
    sidebar,             \* sidebarOpen, sidebarContent, sidebarHighlight, sidebarFilename
    state,               \* ProgressVisualizer: stage statuses
    agentState,          \* ProgressVisualizer: agentState
    runs,                \* the handleRun invocations in flight: pc, buffer, chunks read
    uploads,             \* the number of handleDocsUpload invocations in flight
    lookups,             \* document requests in flight
    stream,              \* the response text of a run and how much of it was delivered
    usageSum,            \* history: token counts of the usage events since the last run start
    lastOp,              \* history: the last step of handleRun or handleIterationSelect
    locator              \* DocumentSidebar: the highlight effect and its marks

vizVars == <<state, agentState>>
vars == <<loading, error, data, finalData, iterationResults, selectedIteration,
          progress, totalTokens, agentDetailedState, csvPath, docsPath, sidebar,
          state, agentState, runs, uploads, lookups, stream, usageSum, lastOp,
          locator>>

Session ==
    [progress |-> progress, totalTokens |-> totalTokens,
     agentDetailedState |-> agentDetailedState, iterationResults |-> iterationResults,
     data |-> data, finalData |-> finalData, error |-> error]

\* the setters of one loop pass, batched into one render
SetSession(S) ==
    /\ progress' = S.progress
    /\ totalTokens' = S.totalTokens
    /\ agentDetailedState' = S.agentDetailedState
    /\ iterationResults' = S.iterationResults
    /\ data' = S.data
    /\ finalData' = S.finalData
    /\ error' = S.error

InitialSidebar == [open |-> FALSE, content |-> <<>>, highlight |-> <<>>, filename |-> <<>>]

\* the highlight effect of the DocumentSidebar: whether a run of it is due,
\* the strategies its last run went through, and the spans it marked
IdleLocator == [pc |-> "idle", log |-> <<>>, spans |-> <<>>]
PendingLocator == [pc |-> "pending", log |-> <<>>, spans |-> <<>>]

\* two stream loops are enough to interleave
RunIds == {1, 2}

IdleRun == [pc |-> "idle", buffer |-> <<>>, reads |-> 0]

Op(name, chunk, iteration, before, dirty) ==
    [op |-> name, chunk |-> chunk, iteration |-> iteration,
     before |-> before, dirty |-> dirty]

Init ==
    /\ loading = FALSE
    /\ error = Null
    /\ data = Null
    /\ finalData = Null
    /\ iterationResults = <<>>
    /\ selectedIteration = Null
    /\ progress = <<>>
    /\ totalTokens = Num(0)
    /\ agentDetailedState = Null
    /\ csvPath = <<>>
    /\ docsPath = <<>>
    /\ sidebar = InitialSidebar
    /\ state = InitialStages
    /\ agentState = InitialAgentState
    /\ runs = [r \in RunIds |-> IdleRun]
    /\ uploads = 0
    /\ lookups = {}
    /\ stream = [text |-> <<>>, pos |-> 0]
    /\ usageSum = 0
    /\ lastOp = Op("none", <<>>, Null, Null, FALSE)
    /\ locator = IdleLocator

\* {loading && <ProgressVisualizer logs={progress} .../>}: the component
\* exists while loading; a mount starts from the useState initial values
\* and runs the effect once, a change of logs runs the effect again
Render ==
    IF ~loading' THEN state' = InitialStages /\ agentState' = InitialAgentState
    ELSE IF ~loading
         THEN /\ state' = FoldStages(InitialStages, progress')
              /\ agentState' = FoldAgent(InitialAgentState, progress')
    ELSE IF progress' # progress
         THEN /\ state' = FoldStages(InitialStages, progress')
              /\ agentState' = FoldAgent(agentState, progress')
    ELSE UNCHANGED vizVars

\* ---------------------------------------------------------------- handleRun

\* the fault of a reset that forgets setTotalTokens(0) and setProgress([])
RunResetPartial ==
    [progress |-> progress, totalTokens |-> totalTokens, agentDetailedState |-> Null,
     iterationResults |-> <<>>, data |-> Null, finalData |-> Null, error |-> Null]

\* what the setters at the top of handleRun leave in the session
RunReset ==
    [progress |-> <<>>, totalTokens |-> Num(0), agentDetailedState |-> Null,
     iterationResults |-> <<>>, data |-> Null, finalData |-> Null, error |-> Null]

\* disabled={loading} on the Start Migration button
CanStartRun == ~loading

\* the stream loops that have not finished
ActiveRuns == {r \in RunIds : runs[r].pc # "idle"}

\* the click on Start Migration up to the await of fetch('/api/run')
StartRun(r) ==
    /\ CanStartRun
    /\ runs[r].pc = "idle"
    /\ \A q \in RunIds : q < r => runs[q].pc # "idle"
    /\ loading' = TRUE
    /\ SetSession(RunReset)
    /\ selectedIteration' = Null
    /\ runs' = [runs EXCEPT ![r].pc = "fetch"]
    /\ usageSum' = 0
    /\ UNCHANGED locator
    /\ lastOp' = Op("StartRun", <<>>, Null, Null,
                    Session # InitialSession \/ selectedIteration # Null)
    /\ UNCHANGED <<csvPath, docsPath, sidebar, uploads, lookups, stream>>
    /\ Render

\* the fault of a handler without the finally block
RunFailedNoFinally(r, message) ==
    /\ error' = Some(message)
    /\ loading' = loading
    /\ runs' = [runs EXCEPT ![r] = IdleRun]
    /\ UNCHANGED <<lastOp, locator>>
    /\ UNCHANGED <<data, finalData, iterationResults, selectedIteration, progress,
                   totalTokens, agentDetailedState, csvPath, docsPath, sidebar,
                   uploads, lookups, usageSum, stream>>
    /\ Render

\* catch (err) { setError(err.message) } finally { setLoading(false) }
RunFailed(r, message) ==
    /\ error' = Some(message)
    /\ loading' = FALSE
    /\ runs' = [runs EXCEPT ![r] = IdleRun]
    /\ UNCHANGED <<lastOp, locator>>
    /\ UNCHANGED <<data, finalData, iterationResults, selectedIteration, progress,
                   totalTokens, agentDetailedState, csvPath, docsPath, sidebar,
                   uploads, lookups, usageSum, stream>>
    /\ Render

\* fetch rejects, or the response is not ok and the handler throws
FetchFail(r) ==
    /\ runs[r].pc = "fetch"
    /\ \E message \in {"Failed to fetch", "HTTP error! status: 500"} :
          RunFailed(r, message)

\* the response is ok: getReader(), buffer = ''
FetchOk(r) ==
    /\ runs[r].pc = "fetch"
    /\ runs' = [runs EXCEPT ![r].pc = "reading", ![r].buffer = <<>>]
    /\ UNCHANGED <<lastOp, locator>>
    /\ UNCHANGED <<loading, error, data, finalData, iterationResults,
                   selectedIteration, progress, totalTokens, agentDetailedState,
                   csvPath, docsPath, sidebar, state, agentState, uploads, lookups,
                   usageSum, stream>>

\* the token counts of the usage events among the terminated records
RECURSIVE UsageOf(_)
UsageOf(lines) ==
    IF lines = <<>> THEN 0
    ELSE LET line == Head(lines)
             event == IF StartsWith(line, DataPrefix)
                      THEN JsonParse(SubSeq(line, Len(DataPrefix) + 1, Len(line)))
                      ELSE Null
         IN (IF event # Null /\ event[1].type = "usage" /\ event[1].tokens # NaN
             THEN event[1].tokens[1] ELSE 0)
                + UsageOf(Tail(lines))

\* reader.read() yields a chunk: one pass of the while loop
ReadChunk(r, chunk) ==
    /\ runs[r].pc = "reading"
    /\ LET out == ProcessChunk(Session, runs[r].buffer, chunk)
           lines == Split(runs[r].buffer \o chunk)
       IN /\ SetSession(out.session)
          /\ runs' = [runs EXCEPT ![r].buffer = out.buffer, ![r].reads = @ + 1]
          /\ usageSum' = usageSum + UsageOf(SubSeq(lines, 1, Len(lines) - 1))
    /\ UNCHANGED locator
    /\ lastOp' = Op("ReadChunk", chunk, Null, Null, FALSE)
    /\ UNCHANGED <<loading, selectedIteration, csvPath, docsPath, sidebar,
                   uploads, lookups>>
    /\ Render

\* a chunk from a response that has delivered fewer than limit chunks
Deliver(r, chunk, limit) ==
    /\ runs[r].reads < limit
    /\ ReadChunk(r, chunk)
    /\ UNCHANGED stream

\* the fault of a close that flushes the buffer as one more record
ReadDoneFlush(r) ==
    /\ runs[r].pc = "reading"
    /\ loading' = FALSE
    /\ runs' = [runs EXCEPT ![r] = IdleRun]
    /\ SetSession(ApplyLine(Session, runs[r].buffer))
    /\ UNCHANGED <<lastOp, locator>>
    /\ UNCHANGED <<selectedIteration, csvPath, docsPath,
                   sidebar, uploads, lookups, usageSum, stream>>
    /\ Render

\* reader.read() yields done: break, then finally
ReadDone(r) ==
    /\ runs[r].pc = "reading"
    /\ loading' = FALSE
    /\ runs' = [runs EXCEPT ![r] = IdleRun]
    /\ UNCHANGED <<lastOp, locator>>
    /\ UNCHANGED <<error, data, finalData, iterationResults, selectedIteration,
                   progress, totalTokens, agentDetailedState, csvPath, docsPath,
                   sidebar, uploads, lookups, usageSum, stream>>
    /\ Render

\* reader.read() rejects
ReadFail(r) ==
    /\ runs[r].pc = "reading"
    /\ RunFailed(r, "network error")

\* ------------------------------------------------------------------ uploads

\* handleDocsUpload with at least one file, up to the first await
DocsUploadStart ==
    /\ uploads < MaxUploads
    /\ loading' = TRUE
    /\ error' = Null
    /\ uploads' = uploads + 1
    /\ UNCHANGED <<lastOp, locator>>
    /\ UNCHANGED <<data, finalData, iterationResults, selectedIteration, progress,
                   totalTokens, agentDetailedState, csvPath, docsPath, sidebar,
                   runs, lookups, usageSum, stream>>
    /\ Render

\* every batch was accepted: setDocsPath when the files carry a folder
DocsUploadOk(folder) ==
    /\ uploads > 0
    /\ docsPath' = IF folder # <<>> THEN <<"files/">> \o folder ELSE docsPath
    /\ loading' = FALSE
    /\ uploads' = uploads - 1
    /\ UNCHANGED <<lastOp, locator>>
    /\ UNCHANGED <<error, data, finalData, iterationResults, selectedIteration,
                   progress, totalTokens, agentDetailedState, csvPath, sidebar,
                   runs, lookups, usageSum, stream>>
    /\ Render

\* a batch was refused or the request rejected
DocsUploadFail ==
    /\ uploads > 0
    /\ error' = Some("Upload failed: Batch 1 failed")
    /\ loading' = FALSE
    /\ uploads' = uploads - 1
    /\ UNCHANGED <<lastOp, locator>>
    /\ UNCHANGED <<data, finalData, iterationResults, selectedIteration, progress,
                   totalTokens, agentDetailedState, csvPath, docsPath, sidebar,
                   runs, lookups, usageSum, stream>>
    /\ Render

\* handleCsvUpload: the response of /api/upload/csv; a refused or failed
\* upload changes nothing
CsvUpload(ok) ==
    /\ csvPath' = IF ok THEN <<"uploaded.csv">> ELSE csvPath
    /\ UNCHANGED <<lastOp, locator>>
    /\ UNCHANGED <<loading, error, data, finalData, iterationResults,
                   selectedIteration, progress, totalTokens, agentDetailedState,
                   docsPath, sidebar, state, agentState, runs, uploads, lookups,
                   usageSum, stream>>

\* ------------------------------------------------------- iteration store

\* iterationResults.find(r => r.iteration === iteration): the first match
Find(results, iteration) ==
    LET hits == {i \in 1..Len(results) : results[i].iteration = iteration}
    IN IF hits = {} THEN Null
       ELSE Some(results[CHOOSE i \in hits : \A j \in hits : i <= j])

\* the fault of a selection that keeps the final target rows
handleIterationSelectFinalTarget(iteration) ==
    IF iteration = Null
    THEN IF finalData # Null THEN finalData ELSE data
    ELSE LET result == Find(iterationResults, iteration[1])
         IN IF result # Null /\ finalData # Null
            THEN Some([source |-> finalData[1].source,
                       target |-> finalData[1].target])
            ELSE data

\* the fault of a final view that does not restore the terminal result
handleIterationSelectNoRestore(iteration) ==
    IF iteration = Null
    THEN data
    ELSE LET result == Find(iterationResults, iteration[1])
         IN IF result # Null /\ finalData # Null
            THEN Some([source |-> finalData[1].source,
                       target |-> parseCSV(result[1].content)])
            ELSE data

\* the value of data after handleIterationSelect(iteration)
handleIterationSelect(iteration) ==
    IF iteration = Null
    THEN IF finalData # Null THEN finalData ELSE data
    ELSE LET result == Find(iterationResults, iteration[1])
         IN IF result # Null /\ finalData # Null
            THEN Some([source |-> finalData[1].source,
                       target |-> parseCSV(result[1].content)])
            ELSE data

\* the rows given to Tabulator: one for each source row, the target row of
\* the same index beside it or {} (whose cells are undefined and show
\* nothing)
TableRows(d) ==
    [idx \in 1..Len(d.source.data) |->
        [source |-> [col \in {d.source.columns[i] : i \in 1..Len(d.source.columns)} |->
                        d.source.data[idx][col]],
         target |-> [col \in {d.target.columns[i] : i \in 1..Len(d.target.columns)} |->
                        IF idx <= Len(d.target.data)
                        THEN d.target.data[idx][col] ELSE <<>>]]]

\* the buttons of the Iteration History bar: {data && ...},
\* {iterationResults.length > 0 && ...}
IterationButtons ==
    IF data # Null /\ Len(iterationResults) > 0
    THEN {Null} \cup {Some(iterationResults[i].iteration) : i \in 1..Len(iterationResults)}
    ELSE {}

IterationSelect(iteration) ==
    /\ iteration \in IterationButtons
    /\ selectedIteration' = iteration
    /\ data' = handleIterationSelect(iteration)
    /\ UNCHANGED locator
    /\ lastOp' = Op("IterationSelect", <<>>, iteration, selectedIteration, FALSE)
    /\ UNCHANGED <<loading, error, finalData, iterationResults, progress,
                   totalTokens, agentDetailedState, csvPath, docsPath, sidebar,
                   state, agentState, runs, uploads, lookups, usageSum, stream>>

\* --------------------------------------------------------- document view

\* a View button exists in the result grid ({data && ...}) or in the
\* CSV Snapshot modal of the ProgressVisualizer
CanViewDocument ==
    \/ data # Null
    \/ loading /\ state.processing = "active" /\ agentDetailedState # Null

\* handleViewDocument: the alert and return (no request), or the request
ViewRequest(filename, context) ==
    IF IsMalformed(filename) THEN {}
    ELSE {[filename |-> filename, context |-> context, via |-> "view"]}

ViewDocument(filename, context) ==
    /\ CanViewDocument
    /\ lookups' = lookups \cup ViewRequest(filename, context)
    /\ UNCHANGED <<lastOp, locator>>
    /\ UNCHANGED <<loading, error, data, finalData, iterationResults,
                   selectedIteration, progress, totalTokens, agentDetailedState,
                   csvPath, docsPath, sidebar, state, agentState, runs, uploads,
                   usageSum, stream>>

\* a render with new props: the effect runs again when content, highlight
\* or isOpen changed; a new content replaces the marked text
EffectDue(old, new) ==
    IF new.content # old.content THEN PendingLocator
    ELSE IF new.highlight # old.highlight \/ new.open # old.open
         THEN [locator EXCEPT !.pc = "pending"]
    ELSE locator

\* the fault of a failed lookup reported through the session's error
DocumentResponseAsError(req, found) ==
    /\ req \in lookups
    /\ lookups' = lookups \ {req}
    /\ sidebar' = IF found
                  THEN [open |-> TRUE, content |-> <<"body of">> \o req.filename,
                        highlight |-> req.context, filename |-> req.filename]
                  ELSE sidebar
    /\ error' = IF found THEN error ELSE Some("Document not found.")
    /\ locator' = EffectDue(sidebar, sidebar')
    /\ UNCHANGED lastOp
    /\ UNCHANGED <<loading, data, finalData, iterationResults,
                   selectedIteration, progress, totalTokens, agentDetailedState,
                   csvPath, docsPath, state, agentState, runs, uploads,
                   usageSum, stream>>

\* the response of /api/document: .then sets the sidebar; .catch alerts
\* (handleViewDocument) or shows 'Document not found.' (source cell)
DocumentResponse(req, found) ==
    /\ req \in lookups
    /\ lookups' = lookups \ {req}
    /\ sidebar' = IF found
                  THEN [open |-> TRUE, content |-> <<"body of">> \o req.filename,
                        highlight |-> req.context, filename |-> req.filename]
                  ELSE IF req.via = "cell"
                       THEN [open |-> TRUE, content |-> <<"Document not found.">>,
                             highlight |-> <<>>, filename |-> req.filename]
                  ELSE sidebar
    /\ locator' = EffectDue(sidebar, sidebar')
    /\ UNCHANGED lastOp
    /\ UNCHANGED <<loading, error, data, finalData, iterationResults,
                   selectedIteration, progress, totalTokens, agentDetailedState,
                   csvPath, docsPath, state, agentState, runs, uploads,
                   usageSum, stream>>

\* the result grid is rendered: {data && ...}
GridShown == data # Null

\* the CsvViewer of the CSV Snapshot modal can be opened
ViewerShown == loading /\ state.processing = "active" /\ agentDetailedState # Null

\* a click in a cell: the requests it issues join those in flight
LookupStep(name, value, requests) ==
    /\ lookups' = lookups \cup requests
    /\ UNCHANGED locator
    /\ lastOp' = Op(name, value, Null, Null, FALSE)
    /\ UNCHANGED <<loading, error, data, finalData, iterationResults,
                   selectedIteration, progress, totalTokens, agentDetailedState,
                   csvPath, docsPath, sidebar, state, agentState, runs, uploads,
                   usageSum, stream>>

\* the View button of a Target Source cell of the result grid
TargetSourceClick(value) ==
    /\ GridShown
    /\ value # <<>>
    /\ LET ref == ResolveTargetSource(value)
       IN LookupStep("TargetSourceClick", value,
                     IF IsMalformedGrid(ref.filename) THEN {}
                     ELSE ViewRequest(ref.filename, ref.context))

\* a button of a Potential Matches cell of the result grid
PotentialMatchClick(value) ==
    /\ GridShown
    /\ value # <<>>
    /\ LET ref == ResolvePotentialMatch(value)
       IN LookupStep("PotentialMatchClick", value,
                     ViewRequest(ref.filename, ref.context))

\* a View or match button of the CsvViewer: onViewDocument is
\* handleViewDocument
CsvViewerClick(value) ==
    /\ ViewerShown
    /\ value # <<>>
    /\ LET ref == ResolveCsvViewer(value)
       IN LookupStep("CsvViewerClick", value,
                     ViewRequest(ref.filename, ref.context))

\* a click in a source-column cell of the result grid
SourceCellClick(value) ==
    /\ GridShown
    /\ LookupStep("SourceCellClick", value,
                  IF value # <<>> /\ NamesDocument(value)
                  THEN {[filename |-> value, context |-> value, via |-> "cell"]}
                  ELSE {})

\* ---------------------------------------------------------- DocumentSidebar

\* the highlight effect runs: behind its guard unmark and the strategies
HighlightEffect ==
    /\ locator.pc = "pending"
    /\ locator' = IF sidebar.open /\ sidebar.highlight # <<>>
                     /\ ~IsHtmlDoc(sidebar.content)
                  THEN Locate(sidebar.highlight, sidebar.content)
                  ELSE [locator EXCEPT !.pc = "done", !.log = <<>>]
    /\ UNCHANGED <<loading, error, data, finalData, iterationResults,
                   selectedIteration, progress, totalTokens, agentDetailedState,
                   csvPath, docsPath, sidebar, state, agentState, runs, uploads,
                   lookups, stream, usageSum, lastOp>>

\* onClose: setSidebarOpen(false)
CloseSidebar ==
    /\ sidebar.open
    /\ locator.pc # "raised"
    /\ sidebar' = [sidebar EXCEPT !.open = FALSE]
    /\ locator' = EffectDue(sidebar, sidebar')
    /\ UNCHANGED <<loading, error, data, finalData, iterationResults,
                   selectedIteration, progress, totalTokens, agentDetailedState,
                   csvPath, docsPath, state, agentState, runs, uploads,
                   lookups, stream, usageSum, lastOp>>

\* ------------------------------------------------------------ specification

Record(c) == DataPrefix \o <<"{", c, "}", NL, NL>>

\* the chunks a response delivers in the specification of the whole App:
\* one record, or two records in one chunk
Chunks ==
    {Record("P") \o Record("U"), Record("I1a") \o Record("R"), Record("E")}

Next ==
    \/ \E r \in RunIds : StartRun(r)
    \/ \E r \in RunIds : FetchFail(r)
    \/ \E r \in RunIds : FetchOk(r)
    \/ \E r \in RunIds, chunk \in Chunks : Deliver(r, chunk, MaxReads)
    \/ \E r \in RunIds : ReadDone(r)
    \/ \E r \in RunIds : ReadFail(r)
    \/ DocsUploadStart
    \/ \E folder \in {<<>>, <<"docs">>} : DocsUploadOk(folder)
    \/ DocsUploadFail
    \/ \E ok \in BOOLEAN : CsvUpload(ok)
    \/ \E it \in IterationButtons : IterationSelect(it)
    \/ \E f \in SampleFilenames : ViewDocument(f, <<"IPROD", "field">>)
    \/ \E req \in lookups, found \in BOOLEAN : DocumentResponse(req, found)
    \/ HighlightEffect

Spec == Init /\ [][Next]_vars

\* The run loop alone, with handleIterationSelect: every chunk below in
\* every order.  Without handleDocsUpload the Start Migration button stays
\* disabled while a loop reads, so the runs follow one another.
RunChunks ==
    {Record(c) : c \in {"P", "U", "V", "A", "I1a", "I1b", "I2", "R", "E", "X"}}
        \cup {Record("Q") \o Record("U"),
              DataPrefix \o <<"{", "V", "}", NL>>,
              <<NL>> \o Record("I2")}

NextRun ==
    \/ \E r \in RunIds : StartRun(r)
    \/ \E r \in RunIds : FetchFail(r)
    \/ \E r \in RunIds : FetchOk(r)
    \/ \E r \in RunIds, chunk \in RunChunks : Deliver(r, chunk, MaxRunReads)
    \/ \E r \in RunIds : ReadDone(r)
    \/ \E r \in RunIds : ReadFail(r)
    \/ \E it \in IterationButtons : IterationSelect(it)

SpecRun == Init /\ [][NextRun]_vars

\* One stream loop fed a given response text in chunks cut anywhere.
Pieces ==
    {Record("U"), Record("Q"), <<NL>>,
     DataPrefix \o <<"{", "V", "}", NL>>,
     <<"{", "E", "}", NL, NL>>}

\* pieces a response text is made of
MaxPieces == 2

RECURSIVE TextsOf(_)
TextsOf(k) ==
    IF k = 0 THEN {<<>>}
    ELSE LET shorter == TextsOf(k - 1)
         IN shorter \cup {t \o piece : t \in shorter, piece \in Pieces}

\* the state once handleRun holds the reader of a response with the text
InitStream ==
    /\ loading = TRUE
    /\ error = Null
    /\ data = Null
    /\ finalData = Null
    /\ iterationResults = <<>>
    /\ selectedIteration = Null
    /\ progress = <<>>
    /\ totalTokens = Num(0)
    /\ agentDetailedState = Null
    /\ csvPath = <<>>
    /\ docsPath = <<>>
    /\ sidebar = InitialSidebar
    /\ state = InitialStages
    /\ agentState = InitialAgentState
    /\ runs = [r \in RunIds |-> IF r = 1 THEN [IdleRun EXCEPT !.pc = "reading"] ELSE IdleRun]
    /\ uploads = 0
    /\ lookups = {}
    /\ stream \in {[text |-> t, pos |-> 0] : t \in TextsOf(MaxPieces)}
    /\ usageSum = 0
    /\ lastOp = Op("none", <<>>, Null, Null, FALSE)
    /\ locator = IdleLocator

\* reader.read() yields the next n units of the text
StreamRead(n) ==
    /\ stream.pos + n <= Len(stream.text)
    /\ ReadChunk(1, SubSeq(stream.text, stream.pos + 1, stream.pos + n))
    /\ stream' = [stream EXCEPT !.pos = @ + n]

\* the text is exhausted: reader.read() yields done
StreamDone ==
    /\ stream.pos = Len(stream.text)
    /\ ReadDone(1)

NextStream ==
    \/ \E n \in 1..Len(stream.text) : StreamRead(n)
    \/ StreamDone

SpecStream == InitStream /\ [][NextStream]_vars

\* One run fed records the dispatch was not written for, among good ones:
\* a payload JSON.parse rejects, a usage event without tokens, an event
\* of an unknown kind and an event without a kind.
Unparsable == DataPrefix \o <<"{", "P", NL, NL>>
MalformedChunks == {Unparsable, Record("W")}
UnknownKindChunks == {Record("X"), Record("N")}
OddChunks ==
    MalformedChunks \cup UnknownKindChunks
        \cup {Record("P"), Record("U"), Record("I1a"), Record("R")}

NextOdd ==
    \/ \E r \in RunIds : StartRun(r)
    \/ \E r \in RunIds : FetchOk(r)
    \/ \E r \in RunIds, chunk \in OddChunks : Deliver(r, chunk, MaxRunReads)
    \/ \E r \in RunIds : ReadDone(r)

SpecOdd == Init /\ [][NextOdd]_vars

\* Document lookups from the result grid and from the CsvViewer, during a
\* run and after it.
MaxLookups == 2

DocChunks == {Record("L"), Record("A"), Record("R")}

NextDocs ==
    \/ \E r \in RunIds : StartRun(r)
    \/ \E r \in RunIds : FetchOk(r)
    \/ \E r \in RunIds, chunk \in DocChunks : Deliver(r, chunk, MaxRunReads)
    \/ \E r \in RunIds : ReadDone(r)
    \/ \E value \in SampleReferences :
          Cardinality(lookups) < MaxLookups /\ TargetSourceClick(value)
    \/ \E value \in SampleReferences :
          Cardinality(lookups) < MaxLookups /\ PotentialMatchClick(value)
    \/ \E value \in SampleReferences :
          Cardinality(lookups) < MaxLookups /\ CsvViewerClick(value)
    \/ \E value \in SampleReferences :
          Cardinality(lookups) < MaxLookups /\ SourceCellClick(value)
    \/ \E req \in lookups, found \in BOOLEAN : DocumentResponse(req, found)
    \/ HighlightEffect

SpecDocs == Init /\ [][NextDocs]_vars

\* The lookups that pass through the shape check, on identifiers at its
\* edges.
NextShape ==
    \/ \E r \in RunIds : StartRun(r)
    \/ \E r \in RunIds : FetchOk(r)
    \/ \E r \in RunIds : Deliver(r, Record("R"), MaxRunReads)
    \/ \E r \in RunIds : ReadDone(r)
    \/ \E value \in ShapeSamples :
          Cardinality(lookups) < MaxLookups /\ TargetSourceClick(value)
    \/ \E value \in ShapeSamples :
          Cardinality(lookups) < MaxLookups /\ PotentialMatchClick(value)
    \/ \E req \in lookups, found \in BOOLEAN : DocumentResponse(req, found)
    \/ HighlightEffect

SpecShape == Init /\ [][NextShape]_vars

\* A run whose progress lines name the iteration, or do not.
IterChunks == {Record("T1"), Record("T2"), Record("T3"), Record("T4"), Record("Q")}

NextIter ==
    \/ \E r \in RunIds : StartRun(r)
    \/ \E r \in RunIds : FetchOk(r)
    \/ \E r \in RunIds, chunk \in IterChunks : Deliver(r, chunk, MaxRunReads)
    \/ \E r \in RunIds : ReadDone(r)

SpecIter == Init /\ [][NextIter]_vars

\* A finished run whose one recorded iteration holds any short CSV text;
\* selecting the iteration decodes it with parseCSV.
MaxCsvLen == 5
CsvAlphabet == {"a", Comma, Quote, Newline, " "}
CsvTexts == UNION {[1..n -> CsvAlphabet] : n \in 0..MaxCsvLen}

InitCsv ==
    /\ loading = FALSE
    /\ error = Null
    /\ data = Some(ResultR)
    /\ finalData = Some(ResultR)
    /\ iterationResults \in {<<[iteration |-> 1, content |-> text]>> : text \in CsvTexts}
    /\ selectedIteration = Null
    /\ progress = <<>>
    /\ totalTokens = Num(0)
    /\ agentDetailedState = Null
    /\ csvPath = <<>>
    /\ docsPath = <<>>
    /\ sidebar = InitialSidebar
    /\ state = InitialStages
    /\ agentState = InitialAgentState
    /\ runs = [r \in RunIds |-> IdleRun]
    /\ uploads = 0
    /\ lookups = {}
    /\ stream = [text |-> <<>>, pos |-> 0]
    /\ usageSum = 0
    /\ lastOp = Op("none", <<>>, Null, Null, FALSE)
    /\ locator = IdleLocator

NextCsv == \E it \in IterationButtons : IterationSelect(it)

SpecCsv == InitCsv /\ [][NextCsv]_vars

\* The DocumentSidebar opened on a document text with a search phrase.
InitLocate ==
    /\ loading = FALSE
    /\ error = Null
    /\ data = Null
    /\ finalData = Null
    /\ iterationResults = <<>>
    /\ selectedIteration = Null
    /\ progress = <<>>
    /\ totalTokens = Num(0)
    /\ agentDetailedState = Null
    /\ csvPath = <<>>
    /\ docsPath = <<>>
    /\ sidebar \in {[open |-> TRUE, content |-> body, highlight |-> phrase,
                      filename |-> ItemMd] : body \in Bodies, phrase \in Phrases}
    /\ state = InitialStages
    /\ agentState = InitialAgentState
    /\ runs = [r \in RunIds |-> IdleRun]
    /\ uploads = 0
    /\ lookups = {}
    /\ stream = [text |-> <<>>, pos |-> 0]
    /\ usageSum = 0
    /\ lastOp = Op("none", <<>>, Null, Null, FALSE)
    /\ locator = PendingLocator

NextLocate ==
    \/ HighlightEffect
    \/ CloseSidebar

SpecLocate == InitLocate /\ [][NextLocate]_vars

\* ------------------------------------------------------------------ claims

\* C1: at most one run is active at any time: never a second handleRun
\* stream loop while an earlier one has not finished.
C1_SingleActiveRun ==
    \A r \in RunIds : runs[r].pc = "reading" => ActiveRuns = {r}

\* what the whole response text delivered as one chunk leaves
WholeText == ProcessChunk(RunReset, <<>>, stream.text)

\* C2: once the stream loop has consumed every chunk of a text, however the
\* text was cut into chunks, the session (and, while the ProgressVisualizer
\* is mounted, what it shows) is what the whole text delivered as one chunk
\* leaves.
C2_ChunkingInvariant ==
    stream.pos = Len(stream.text) =>
        /\ Session = WholeText.session
        /\ loading =>
              /\ runs[1].buffer = WholeText.buffer
              /\ state = FoldStages(InitialStages, WholeText.session.progress)
              /\ agentState = FoldAgent(InitialAgentState, WholeText.session.progress)

\* a usage record whose last chunk was the second newline of its
\* terminator, after a cut inside the record
C2_Witness ==
    /\ stream.text = Record("Q") \o Record("U")
    /\ stream.pos = Len(stream.text)
    /\ runs[1].reads >= 3
    /\ lastOp.op = "ReadChunk"
    /\ lastOp.chunk = <<NL>>
    /\ totalTokens = Num(2)
    /\ state.converting = "completed"

\* C3: while a run shows its progress, no stage status goes down in the
\* order waiting < active < completed when a progress line is added.
C3_StageMonotone ==
    [][(loading /\ loading') =>
          \A s \in Stages : Rank(state'[s]) >= Rank(state[s])]_vars

\* C4: totalTokens is the sum of the token counts of the usage events
\* applied since the run started.
C4_TokensAreSum == totalTokens = Num(usageSum)

\* two usage events with a progress event and an iteration in between
C4_Witness ==
    /\ totalTokens = Num(5)
    /\ progress # <<>>
    /\ lastOp.op = "ReadChunk"

\* the handlers that are neither the stream loop nor the run start
OtherHandler ==
    \/ DocsUploadStart
    \/ \E folder \in {<<>>, <<"docs">>} : DocsUploadOk(folder)
    \/ DocsUploadFail
    \/ \E ok \in BOOLEAN : CsvUpload(ok)
    \/ \E it \in IterationButtons : IterationSelect(it)
    \/ \E f \in SampleFilenames : ViewDocument(f, <<"IPROD", "field">>)
    \/ \E req \in lookups, found \in BOOLEAN : DocumentResponse(req, found)

\* C5: CSV upload, document-folder upload, document view and iteration
\* selection leave the progress log, totalTokens, detailedState, the
\* iteration snapshots, the terminal result and the terminal error as
\* they are.
C5_OnlyStreamWrites ==
    [][OtherHandler =>
          UNCHANGED <<progress, totalTokens, agentDetailedState,
                      iterationResults, finalData, error>>]_vars

\* C6: a run start leaves the session at its initial value: empty log,
\* zero tokens, no detailed state, no snapshots, no selection, no result,
\* no error, every stage waiting, iteration 0, no files selected.
C6_RunStartResets ==
    [][(\E r \in RunIds : StartRun(r)) =>
          /\ Session' = InitialSession
          /\ selectedIteration' = Null
          /\ state' = InitialStages
          /\ agentState'.iteration = 0
          /\ agentState'.files = 0]_vars

\* a run start that found the session changed by an earlier run
C6_Witness ==
    /\ lastOp.op = "StartRun"
    /\ lastOp.dirty
    /\ Session = InitialSession
    /\ state = InitialStages

\* C7: the store holds at most one snapshot per iteration number.
C7_OneSnapshotPerNumber ==
    \A i, j \in 1..Len(iterationResults) :
        iterationResults[i].iteration = iterationResults[j].iteration => i = j

\* C8: the iteration snapshots are in ascending order of iteration number.
C8_SnapshotsAscending ==
    \A i \in 1..(Len(iterationResults) - 1) :
        iterationResults[i].iteration <= iterationResults[i + 1].iteration

\* iteration 1 arrived after iteration 2 and stands before it
C8_Witness ==
    /\ lastOp.op = "ReadChunk"
    /\ lastOp.chunk = Record("I1a")
    /\ Len(iterationResults) = 2
    /\ iterationResults[1].iteration = 1
    /\ iterationResults[2].iteration = 2

\* C9: selecting a recorded iteration k shows the decode of a snapshot
\* numbered k beside the source half of the terminal result, and no
\* selection changes the source half or the terminal result.
C9_SelectPairsWithSource ==
    [][\A it \in IterationButtons :
          IterationSelect(it) =>
              /\ finalData # Null
              /\ finalData' = finalData
              /\ data'[1].source = finalData[1].source
              /\ it # Null =>
                    \E i \in 1..Len(iterationResults) :
                        /\ iterationResults[i].iteration = it[1]
                        /\ data'[1].target = parseCSV(iterationResults[i].content)]_vars

\* iteration 1 is shown: its decode differs from the final target
C9_Witness ==
    /\ lastOp.op = "IterationSelect"
    /\ lastOp.iteration = Some(1)
    /\ finalData # Null
    /\ data # finalData
    /\ data[1].target = parseCSV(CsvA)
    /\ data[1].source = finalData[1].source

\* C10: selecting the final view shows the terminal result again, and no
\* selection starts a request.
C10_FinalViewRestores ==
    [][\A it \in IterationButtons :
          IterationSelect(it) =>
              /\ it = Null => data' = finalData /\ data' # Null
              /\ UNCHANGED <<runs, lookups, uploads>>]_vars

\* the final view selected while iteration 1 was shown
C10_Witness ==
    /\ lastOp.op = "IterationSelect"
    /\ lastOp.iteration = Null
    /\ lastOp.before = Some(1)
    /\ finalData # Null
    /\ data = finalData

\* C11: a record whose payload does not parse, and a usage event without
\* a token count, read on an empty buffer, leave every session field as
\* it was.
C11_MalformedSkipped ==
    [][\A r \in RunIds, chunk \in MalformedChunks :
          (runs[r].buffer = <<>> /\ Deliver(r, chunk, MaxRunReads))
              => Session' = Session]_vars

\* C12: an event of a kind the dispatch does not name, or without a kind,
\* leaves every session field and the visualizer state unchanged, and the
\* loop goes on reading.
C12_UnknownKindNoOp ==
    [][\A r \in RunIds, chunk \in UnknownKindChunks :
          (runs[r].buffer = <<>> /\ Deliver(r, chunk, MaxRunReads))
              => /\ Session' = Session
                 /\ UNCHANGED <<vizVars, loading, selectedIteration>>
                 /\ runs'[r].pc = "reading"]_vars

\* an event without a kind was read after a progress line and a usage event
C12_Witness ==
    /\ lastOp.op = "ReadChunk"
    /\ lastOp.chunk = Record("N")
    /\ progress # <<>>
    /\ totalTokens = Num(2)
    /\ error = Null

\* C13: once a result event or an error event has been applied, the run
\* is no longer active: loading is false and no stream loop is reading.
C13_TerminalEndsRun ==
    (finalData # Null \/ error # Null) => (~loading /\ ActiveRuns = {})

\* C14: a launch that fails and a chunk read that fails set the terminal
\* error to the failure's message and end the run with loading false;
\* what the events before the failure wrote stays.
C14_TransportFailure ==
    [][\A r \in RunIds :
          /\ FetchFail(r) =>
                 error' \in {Some("Failed to fetch"), Some("HTTP error! status: 500")}
          /\ ReadFail(r) => error' = Some("network error")
          /\ (FetchFail(r) \/ ReadFail(r)) =>
                 /\ ~loading'
                 /\ runs'[r].pc = "idle"
                 /\ UNCHANGED <<progress, totalTokens, agentDetailedState,
                                iterationResults, data, finalData>>]_vars

\* a read failed after a progress line and a usage event had been applied
C14_Witness ==
    /\ error = Some("network error")
    /\ ~loading
    /\ ActiveRuns = {}
    /\ progress # <<>>
    /\ totalTokens = Num(2)

\* C15: no document request is ever in flight for an identifier that
\* fails the shape check.
C15_NoFetchForMalformed ==
    \A req \in lookups : ~IsMalformed(req.filename)

\* a click that looks a document up, or the response to a lookup
LookupAction ==
    \/ \E value \in SampleReferences :
          \/ TargetSourceClick(value)
          \/ PotentialMatchClick(value)
          \/ CsvViewerClick(value)
          \/ SourceCellClick(value)
    \/ \E req \in lookups, found \in BOOLEAN : DocumentResponse(req, found)

\* C16: a document lookup, accepted, refused by the shape check, answered
\* or not found, leaves the progress log, the stage statuses, totalTokens,
\* detailedState, the snapshots, the selection, the result, the error and
\* the loading flag unchanged.
C16_LookupKeepsSession ==
    [][LookupAction =>
          UNCHANGED <<progress, state, agentState, totalTokens, agentDetailedState,
                      iterationResults, selectedIteration, data, finalData, error,
                      loading>>]_vars

\* a lookup from a source cell was answered not-found in the middle of a run
C16_Witness ==
    /\ loading
    /\ ActiveRuns # {}
    /\ progress # <<>>
    /\ sidebar.open
    /\ sidebar.content = <<"Document not found.">>

\* t is s without the white space at its two ends
IsTrimOf(t, s) ==
    \E i \in 1..(Len(s) + 1), j \in 0..Len(s) :
        /\ t = SubSeq(s, i, j)
        /\ \A k \in 1..(i - 1) : s[k] \in Whitespace
        /\ \A k \in (j + 1)..Len(s) : s[k] \in Whitespace
        /\ t # <<>> => (t[1] \notin Whitespace /\ t[Len(t)] \notin Whitespace)

\* ref is value split at its first colon
IsSplitAtFirstColon(ref, value) ==
    /\ (\A i \in 1..Len(value) : value[i] # ":") =>
            (ref.filename = value /\ ref.context = <<>>)
    /\ \A i \in 1..Len(value) :
            (value[i] = ":" /\ \A k \in 1..(i - 1) : value[k] # ":") =>
                /\ IsTrimOf(ref.filename, SubSeq(value, 1, i - 1))
                /\ IsTrimOf(ref.context, SubSeq(value, i + 1, Len(value)))

\* C17: after a click on a reference, the split the clicked place makes is
\* the split at the first colon, trimmed on both sides, the whole value
\* and an empty context when there is no colon, and the three places
\* that split a reference yield the same pair.
C17_ResolveAtFirstColon ==
    lastOp.op \in {"TargetSourceClick", "PotentialMatchClick", "CsvViewerClick"} =>
        LET value == lastOp.chunk
        IN /\ IsSplitAtFirstColon(ResolveTargetSource(value), value)
           /\ ResolvePotentialMatch(value) = ResolveTargetSource(value)
           /\ ResolveCsvViewer(value) = ResolveTargetSource(value)

\* ' I.md : a:b ' was clicked in a Target Source cell and requested as
\* 'I.md' with the context 'a:b'
C17_Witness ==
    /\ lastOp.op = "TargetSourceClick"
    /\ lastOp.chunk = RefItem
    /\ \E req \in lookups :
          /\ req.filename = <<"I", ".", "m", "d">>
          /\ req.context = <<"a", ":", "b">>

\* filename ends in a dot followed by 2 to 4 alphanumeric characters
EndsInShortExtension(filename) ==
    \E k \in {2, 3, 4} :
        /\ Len(filename) > k
        /\ filename[Len(filename) - k] = "."
        /\ \A i \in 1..k : filename[Len(filename) - k + i] \in Alnum

\* C18: a click whose identifier ends in a dot and 2 to 4 alphanumerics,
\* or has at most 20 characters, requests the document under that
\* identifier; a click with any other identifier raises the warning and
\* changes nothing: no request, no session field, no sidebar.
C18_ShapeCheck ==
    [][\A value \in ShapeSamples :
          (TargetSourceClick(value) \/ PotentialMatchClick(value)) =>
              LET ref == ResolveTargetSource(value)
                  valid == EndsInShortExtension(ref.filename) \/ Len(ref.filename) <= 20
              IN /\ valid => \E req \in lookups' :
                                 /\ req.filename = ref.filename
                                 /\ req.context = ref.context
                 /\ ~valid => UNCHANGED <<lookups, sidebar, loading, error, data,
                                          finalData, iterationResults,
                                          selectedIteration, progress, totalTokens,
                                          agentDetailedState, state, agentState>>]_vars

\* a 21-character identifier without extension was refused after a
\* 20-character one had been requested
C18_Witness ==
    /\ lastOp.op = "PotentialMatchClick"
    /\ lastOp.chunk = Xs(21)
    /\ lookups = {[filename |-> Xs(20), context |-> <<>>, via |-> "view"]}


\* C19: the strategies run in the order 1, 2, 3; strategy 2 is entered only
\* after strategy 1 reported zero spans, strategy 3 only after strategies 1
\* and 2 both reported zero spans, and nothing runs after a strategy that
\* marked a span.
C19_StrategyOrder ==
    \A i \in 1..Len(locator.log) :
        /\ locator.log[i].strategy = i
        /\ \A j \in 1..(i - 1) : locator.log[j].outcome = "nothing"
        /\ locator.log[i].outcome = "marked" => i = Len(locator.log)

\* strategy 2 marked the phrase that strategy 1 did not find
C19_Witness ==
    /\ locator.pc = "done"
    /\ locator.log = <<Tried(1, "nothing"), Tried(2, "marked")>>
    /\ Len(locator.spans) > 0

\* C20: a search phrase of fewer than 2 characters leaves zero spans marked,
\* whatever the document text.
C20_ShortPhraseNoMatch ==
    (Len(sidebar.highlight) < MinTerm /\ locator.pc = "done")
        => locator.spans = <<>>

\* the phrase occurs in the text as it stands, letter case aside
IsSubstring(phrase, text) == Includes(ToLower(text), ToLower(phrase))

\* tokens[k..] occur in the text from position pos on, in order, each pair
\* separated by one or more characters that are not word characters
RECURSIVE OccurFrom(_, _, _, _)
OccurFrom(tokens, k, text, pos) ==
    LET token == tokens[k]
        end == pos + Len(token)
    IN /\ end - 1 <= Len(text)
       /\ \A i \in 1..Len(token) :
              LowerCase(text[pos + i - 1]) = LowerCase(token[i])
       /\ \/ k = Len(tokens)
          \/ \E next \in (end + 1)..Len(text) :
                 /\ \A i \in end..(next - 1) : ~IsWordChar(text[i])
                 /\ OccurFrom(tokens, k + 1, text, next)

TokensInOrder(phrase, text) ==
    LET tokens == SplitWords(phrase, <<>>, <<>>)
    IN /\ tokens # <<>>
       /\ \E pos \in 1..Len(text) : OccurFrom(tokens, 1, text, pos)

\* C21: a phrase that is not a substring of the text, letter case aside,
\* but whose tokens occur in it in order, separated by non-word characters,
\* is marked through strategy 2; a phrase without tokens gets nothing from
\* strategy 2.
C21_WordSequenceMatch ==
    (sidebar.open /\ locator.pc \in {"done", "raised"}) =>
        /\ (~IsSubstring(sidebar.highlight, sidebar.content)
                /\ TokensInOrder(sidebar.highlight, sidebar.content))
              => /\ Len(locator.spans) > 0
                 /\ locator.log = <<Tried(1, "nothing"), Tried(2, "marked")>>
        /\ SplitWords(sidebar.highlight, <<>>, <<>>) = <<>>
              => \A i \in 1..Len(locator.log) : locator.log[i] # Tried(2, "marked")

\* the dataset shown after the recorded iteration was selected
Decoded == data[1].target

\* the recorded CSV text
CsvText == iterationResults[1].content

IterationShown == lastOp.op = "IterationSelect" /\ selectedIteration = Some(1)

\* the logical records of a CSV text: a newline ends a record only outside
\* quotes; records of white space alone do not count
RECURSIVE LogicalRecords(_, _, _, _)
LogicalRecords(text, i, inQuotes, blank) ==
    IF i > Len(text) THEN (IF blank THEN 0 ELSE 1)
    ELSE IF text[i] = Newline /\ ~inQuotes
         THEN (IF blank THEN 0 ELSE 1) + LogicalRecords(text, i + 1, FALSE, TRUE)
    ELSE LogicalRecords(text, i + 1,
                        IF text[i] = Quote THEN ~inQuotes ELSE inQuotes,
                        blank /\ text[i] \in Whitespace)

\* every quote of the text is closed
ClosedQuotes(text) ==
    Cardinality({i \in 1..Len(text) : text[i] = Quote}) % 2 = 0

\* C22: a quoted field may hold a newline or the delimiter: the decode of
\* a text whose quotes are closed has one row for every logical record
\* after the header.
C22_QuotedFields ==
    (IterationShown /\ ClosedQuotes(CsvText)
        /\ LogicalRecords(CsvText, 1, FALSE, TRUE) > 0)
        => Len(Decoded.data) = LogicalRecords(CsvText, 1, FALSE, TRUE) - 1

\* the non-blank lines of the recorded text, as parseLine reads them
RecordFields ==
    LET NonBlank(l) == ~IsBlank(l)
        lines == SelectSeq(SplitLines(CsvText, <<>>, <<>>), NonBlank)
    IN [k \in 1..Len(lines) |-> parseLine(lines[k])]

\* C23: every row has exactly the keys of columns, zipped by position
\* against the header (the empty string for a missing trailing field,
\* fields beyond the header dropped); the columns are unique and in
\* header order.
C23_RowsZipped ==
    (IterationShown /\ Len(RecordFields) > 0) =>
        LET columns == Decoded.columns
        IN /\ columns = RecordFields[1]
           /\ \A i, j \in 1..Len(columns) : columns[i] = columns[j] => i = j
           /\ Len(Decoded.data) = Len(RecordFields) - 1
           /\ \A k \in 1..Len(Decoded.data) :
                 /\ DOMAIN Decoded.data[k] = {columns[i] : i \in 1..Len(columns)}
                 /\ \A i \in 1..Len(columns) :
                        Decoded.data[k][columns[i]] =
                            IF i <= Len(RecordFields[k + 1])
                            THEN RecordFields[k + 1][i] ELSE <<>>

\* the number of lines of the text that hold more than white space
RECURSIVE NonBlankLines(_, _, _)
NonBlankLines(text, i, blank) ==
    IF i > Len(text) THEN (IF blank THEN 0 ELSE 1)
    ELSE IF text[i] = Newline
         THEN (IF blank THEN 0 ELSE 1) + NonBlankLines(text, i + 1, TRUE)
    ELSE NonBlankLines(text, i + 1, blank /\ text[i] \in Whitespace)

\* the first line that holds more than white space: what precedes it is
\* white space
FirstNonBlankLine(text) ==
    LET from == CHOOSE i \in 1..Len(text) :
                    /\ i = 1 \/ text[i - 1] = Newline
                    /\ \A j \in 1..(i - 1) : text[j] \in Whitespace
                    /\ \E j \in i..Len(text) :
                           /\ text[j] \notin Whitespace
                           /\ \A m \in i..j : text[m] # Newline
        to == CHOOSE j \in from..Len(text) :
                    /\ \A m \in from..j : text[m] # Newline
                    /\ j = Len(text) \/ text[j + 1] = Newline
    IN SubSeq(text, from, to)

\* C24: the decode of an empty text, or of one without a non-blank line,
\* is the empty dataset; a blank line gives no row and is never the header.
C24_BlankLinesDropped ==
    IterationShown =>
        IF NonBlankLines(CsvText, 1, TRUE) = 0
        THEN Decoded = EmptyDataset
        ELSE /\ Len(Decoded.data) = NonBlankLines(CsvText, 1, TRUE) - 1
             /\ Decoded.columns = parseLine(FirstNonBlankLine(CsvText))

\* blank lines before the header, between the rows and at the end
C24_Witness ==
    /\ IterationShown
    /\ CsvText = <<Newline, "a", Newline, " ", Newline>>
    /\ Decoded = [columns |-> <<<<"a">>>>, data |-> <<>>]

\* the cells of one half of a displayed row: those of the dataset's row at
\* that position, or empty fields when the dataset has no such row
HalfAt(dataset, i) ==
    [col \in {dataset.columns[c] : c \in 1..Len(dataset.columns)} |->
        IF i <= Len(dataset.data) THEN dataset.data[i][col] ELSE <<>>]

\* C25: with different row counts the displayed rows pair source row i
\* with target row i, and every position beyond the shorter side shows the
\* missing half as empty fields.
C25_RowPairing ==
    IterationShown =>
        LET shown == data[1]
            rows == TableRows(shown)
            longer == IF Len(shown.source.data) >= Len(shown.target.data)
                      THEN Len(shown.source.data) ELSE Len(shown.target.data)
        IN /\ Len(rows) = longer
           /\ \A i \in 1..Len(rows) :
                 /\ rows[i].source = HalfAt(shown.source, i)
                 /\ rows[i].target = HalfAt(shown.target, i)

\* what the reader has yielded so far
Consumed == SubSeq(stream.text, 1, stream.pos)

\* the records of the consumed text that the blank-line delimiter ends, in
\* stream order
Terminated == SubSeq(Split(Consumed), 1, Len(Split(Consumed)) - 1)

\* what follows the last delimiter of the consumed text
Remainder == Split(Consumed)[Len(Split(Consumed))]

\* C26: after every chunk, and after the stream has closed, the session is
\* the fold of exactly the terminated records of the text read so far, in
\* stream order; while the stream is read the buffer is the unterminated
\* remainder, and the remainder left at the close is never applied.
C26_DeFramer ==
    /\ Session = ApplyLines(RunReset, Terminated)
    /\ usageSum = UsageOf(Terminated)
    /\ runs[1].pc = "reading" => runs[1].buffer = Remainder

\* the stream closed after a terminated record and a usage record that
\* lacks its second newline, cut in three chunks
C26_Witness ==
    /\ stream.text = Record("Q") \o DataPrefix \o <<"{", "V", "}", NL>>
    /\ stream.pos = Len(stream.text)
    /\ runs[1].pc = "idle"
    /\ ~loading
    /\ progress = <<JsonBody["Q"].message>>
    /\ totalTokens = Num(0)
    /\ lastOp.op = "ReadChunk"
    /\ lastOp.chunk = <<"}", NL>>

\* the N and M of the last progress line that holds "Iteration N/M", or
\* the initial values
LastIteration(lines) ==
    LET hits == {i \in 1..Len(lines) : MatchIteration(lines[i]) # Null}
    IN IF hits = {} THEN <<0, 5>>
       ELSE LET last == CHOOSE i \in hits : \A j \in hits : j <= i
                m == MatchIteration(lines[last])[1]
            IN <<parseInt(m[1]), parseInt(m[2])>>

\* C27: iteration is an integer >= 0 and maxIterations an integer >= 1, and
\* while the progress is shown both are the N and M of the last line that
\* holds "Iteration N/M", or 0 and 5 when no line holds it.
C27_IterationCounter ==
    /\ agentState.iteration \in Nat
    /\ agentState.maxIterations \in Nat \ {0}
    /\ loading =>
          <<agentState.iteration, agentState.maxIterations>> = LastIteration(progress)

\* C28: a displayed dataset matches the selected view: the terminal result
\* when no iteration is selected, else a target half that is the decode of
\* a recorded snapshot of the selected number.
C28_DisplayMatchesSelection ==
    data # Null =>
        IF selectedIteration = Null
        THEN data = finalData
        ELSE \E i \in 1..Len(iterationResults) :
                /\ iterationResults[i].iteration = selectedIteration[1]
                /\ data[1].target = parseCSV(iterationResults[i].content)

\* C29: when strategies 1 and 2 both found nothing for a phrase of at
\* least 2 characters, the effect runs the loose fallback and completes
\* with zero or more spans, without raising an error.
C29_FallbackCompletes ==
    (/\ Len(sidebar.highlight) >= MinTerm
     /\ Len(locator.log) >= 2
     /\ locator.log[1] = Tried(1, "nothing")
     /\ locator.log[2] = Tried(2, "nothing"))
        => /\ locator.pc \in {"done", "pending"}
           /\ Len(locator.log) = 3
           /\ locator.log[3].strategy = 3
           /\ locator.log[3].outcome \in {"marked", "nothing"}

\* the clicks that look a document up
ClickOps == {"TargetSourceClick", "PotentialMatchClick", "CsvViewerClick",
             "SourceCellClick"}

\* the request of the most recent click, when that click issued one
LastRequested ==
    IF lastOp.op = "SourceCellClick"
    THEN [filename |-> lastOp.chunk, context |-> lastOp.chunk, via |-> "cell"]
    ELSE LET at == IndexOfColon(lastOp.chunk)
         IN [filename |-> IF at = 0 THEN lastOp.chunk
                          ELSE Trim(SubSeq(lastOp.chunk, 1, at - 1)),
             context |-> IF at = 0 THEN <<>>
                         ELSE Trim(SubSeq(lastOp.chunk, at + 1, Len(lastOp.chunk))),
             via |-> "view"]

\* the sidebar shows the document of the most recent request
ShowsLastRequested ==
    /\ lastOp.op \in ClickOps
    /\ LastRequested \notin lookups
    /\ sidebar.open
    /\ sidebar.filename = LastRequested.filename
    /\ sidebar.highlight = LastRequested.context
    /\ sidebar.content = <<"body of">> \o LastRequested.filename

\* C30: responses arriving in any order leave the sidebar on the most
\* recently requested document: once its body, filename and phrase are
\* shown, the response of an earlier request does not replace them.
C30_LastRequestWins ==
    [][(ShowsLastRequested
            /\ \E req \in lookups, found \in BOOLEAN : DocumentResponse(req, found))
          => ShowsLastRequested']_vars

====
